---------------------------- MODULE Spec2Model ----------------------------
(***************************************************************************)
(* Model of the two welding thermal-field engines of the repository:       *)
(*   cpp-weld-2 : class WeldingSimulation (WeldingSimulation.cpp/.h)       *)
(*   cpp-weld   : class TIGSimulator      (cpp-weld/main.cpp)              *)
(*                                                                         *)
(* Numbers.  The programs compute in double.  Here every scalar expression *)
(* is computed exactly over the rationals (a pair <<n, d>>, d > 0, in      *)
(* lowest terms) and every element stored in a field array (T, T_max,      *)
(* q_surf, Q_vol) is held at resolution 1, rounded to nearest, which       *)
(* stands for the rounding of a stored double.  Temperatures are counted   *)
(* in units of 100 K, so the 5000 K ceiling is 50.  std::exp is modelled   *)
(* by ExpNeg, M_PI by PI_R.                                                *)
(***************************************************************************)
EXTENDS Integers, Sequences, FiniteSets, TLC

\* ------------------------------------------------------------------
\* Bounds of the model: the largest grid that is explored.
MaxNx == 5
MaxNy == 3

\* ------------------------------------------------------------------
\* Rational arithmetic
Abs(a) == IF a < 0 THEN -a ELSE a

RECURSIVE GCD(_, _)
GCD(a, b) == IF b = 0 THEN a ELSE GCD(b, a % b)

Norm(n, d) ==
    LET s == IF d < 0 THEN -1 ELSE 1
        g == GCD(Abs(n), Abs(d))
    IN  IF n = 0 THEN <<0, 1>> ELSE <<(s * n) \div g, (s * d) \div g>>

R(n) == <<n, 1>>
RAdd(a, b) ==
    LET g == GCD(a[2], b[2])
    IN  Norm(a[1] * (b[2] \div g) + b[1] * (a[2] \div g), (a[2] \div g) * b[2])
RSub(a, b) == RAdd(a, <<-b[1], b[2]>>)
RMul(a, b) ==
    LET g1 == GCD(Abs(a[1]), b[2])
        g2 == GCD(Abs(b[1]), a[2])
    IN  IF a[1] = 0 \/ b[1] = 0 THEN <<0, 1>>
        ELSE Norm((a[1] \div g1) * (b[1] \div g2), (a[2] \div g2) * (b[2] \div g1))
RInv(a) == Norm(a[2], a[1])
RDiv(a, b) == RMul(a, RInv(b))
RLt(a, b) == a[1] * b[2] < b[1] * a[2]
RLe(a, b) == a[1] * b[2] <= b[1] * a[2]
RMin(a, b) == IF RLt(b, a) THEN b ELSE a
\* nearest integer (halves away from zero), the value a field array holds
Round(a) ==
    IF a[1] >= 0 THEN (2 * a[1] + a[2]) \div (2 * a[2])
    ELSE -((2 * (-a[1]) + a[2]) \div (2 * a[2]))
\* ceil of a rational
Ceil(a) == -((-a[1]) \div a[2])


\* ------------------------------------------------------------------
\* Library functions and constants of <cmath>
\* M_PI and sqrt(M_PI), as rationals
PI_R == <<22, 7>>
SQRT_PI_R == <<39, 22>>
\* std::exp(-z) for z >= 0: the reciprocal of the quadratic Taylor polynomial
\* of exp(z), returned at a resolution of 1/64.  It is 1 at 0, never
\* negative and never increasing.
ExpNeg(z) ==
    LET p == z[1]
        q == z[2]
        e == Norm(2 * q * q, 2 * q * q + 2 * p * q + p * p)
    IN  Norm(Round(RMul(R(64), e)), 64)

\* ------------------------------------------------------------------
\* Configurations (struct SimulationConfig / struct TIGConfig).  The same
\* input values are handed to both programs.  Lengths are chosen so that
\* every grid spacing of the explored grids is a whole number.
Processes == {"TIG", "Electrode"}
VoltageSet == {0, 10, 25, -25}
DtSet == {<<1, 1>>, <<2, 1>>}
SpeedSet == {15, 45}
Programs == {"cpp-weld", "cpp-weld-2"}

\* the default efficiency of each program's configuration struct
DefaultEta(prog) == IF prog = "cpp-weld" THEN <<3, 4>> ELSE <<17, 20>>

Configs(prog) ==
    { [ Lx |-> 60, Ly |-> 24, thickness |-> 2, nx |-> nx, ny |-> ny,
        mat_1_rho |-> 5, mat_1_cp |-> 4, mat_1_k |-> 900,
        mat_1_T_melt |-> 18, mat_1_T_crit |-> 13,
        mat_2_rho |-> IF same THEN 5 ELSE 5,
        mat_2_cp |-> IF same THEN 4 ELSE 4,
        mat_2_k |-> IF same THEN 900 ELSE 180,
        mat_2_T_melt |-> IF same THEN 18 ELSE 17,
        mat_2_T_crit |-> IF same THEN 13 ELSE 12,
        V |-> v, I |-> 25000, eta |-> DefaultEta(prog),
        v_weld |-> vw, x_start |-> 15, y_arc |-> 0,
        a |-> 15, b |-> 12, cf |-> 15, cr |-> 30,
        ff |-> <<3, 5>>, fr |-> <<7, 5>>,
        T0 |-> 3, dt |-> dt,
        weld_process |-> wp, use_gas |-> gas ] :
      nx \in 3..MaxNx, ny \in 3..MaxNy, same \in BOOLEAN, v \in VoltageSet,
      vw \in SpeedSet, dt \in DtSet, wp \in Processes, gas \in BOOLEAN }

VARIABLES
    program,        \* which of the two executables this run is
    \* ---- cpp-weld-2, class WeldingSimulation
    config_,        \* SimulationConfig as held by the object (eta adjusted)
    T_,             \* current temperature, cell index -> value
    T_max_,         \* peak temperature
    t_,             \* run(): the clock t
    step_,          \* run(): number of loop iterations executed
    pc_,            \* run(): "running", "done" or "crashed"
    Qvol_,          \* run(): the Qvol vector of the last iteration
    goldak_called_, \* run(): whether the last iteration called computeGoldakHeatFlux
    alpha_,         \* solveTimeStep(): alpha of each interior cell, last call
    dt_effective_,  \* solveTimeStep(): dt_effective of each interior cell, last call
    time_history_,  \* monitoring: times
    T_history_,     \* monitoring: one sequence per monitoring point
    fusion_zone_,   \* printStatistics(): fusion mask
    HAZ_zone_,      \* printStatistics(): HAZ mask
    \* ---- cpp-weld, class TIGSimulator
    config,         \* TIGConfig
    T,              \* current temperature
    T_max,          \* peak temperature
    Q_vol,          \* source term of the last step
    goldak_called,  \* whether the last step called goldak_heat_flux
    step,           \* run_simulation(): number of loop iterations executed
    pc,             \* run_simulation(): "running" or "done"
    fusion_count,   \* analyze_results()
    haz_count,      \* analyze_results()
    \* ---- the sweep of one time step, while it runs
    T_new_,         \* solveTimeStep(): the local vector T_new
    swept_,         \* solveTimeStep(): the cells whose iteration has run
    T_new,          \* time_step_explicit(): the local vector T_new
    swept,          \* time_step_explicit(): the cells written so far
    \* ---- record of the run
    zones_step_     \* the step after which computeZones last ran, -1 if never

vars2 == <<config_, T_, T_max_, t_, step_, pc_, Qvol_, goldak_called_, alpha_,
           dt_effective_, time_history_, T_history_, fusion_zone_, HAZ_zone_>>
vars1 == <<config, T, T_max, Q_vol, goldak_called, step, pc, fusion_count, haz_count>>
varsSweep == <<T_new_, swept_, T_new, swept>>
vars == <<program, vars2, vars1, varsSweep, zones_step_>>

\* ------------------------------------------------------------------
\* cpp-weld-2: grid (WeldingSimulation.h, initializeGrid)
nx_ == config_.nx
ny_ == config_.ny
N_ == nx_ * ny_
Cells_ == 0..(N_ - 1)
idx(i, j) == j * nx_ + i
col_(index) == index % nx_
row_(index) == index \div nx_
isBoundary(i, j) == i = 0 \/ i = nx_ - 1 \/ j = 0 \/ j = ny_ - 1
Interior_ == {c \in Cells_ : ~isBoundary(col_(c), row_(c))}
midpoint_ == Norm(config_.Lx, 2)
x_(i) == Norm(i * config_.Lx, nx_ - 1)
y_(j) == RAdd(Norm(-config_.Ly, 2), Norm(j * config_.Ly, ny_ - 1))
dx_ == RSub(x_(1), x_(0))
dy_ == RSub(y_(1), y_(0))
X_(index) == x_(col_(index))
Y_(index) == y_(row_(index))

\* ------------------------------------------------------------------
\* cpp-weld-2: constructor (efficiency, power, time parameters)
\* mutant: the efficiency of the input configuration is kept
AdjustEfficiency_Keep(c) == c

AdjustEfficiency(c) ==
    IF c.weld_process = "TIG"
    THEN IF c.use_gas THEN [c EXCEPT !.eta = <<3, 4>>]
                      ELSE [c EXCEPT !.eta = <<13, 20>>]
    ELSE IF c.weld_process = "Electrode" THEN [c EXCEPT !.eta = <<17, 20>>]
    ELSE c

\* mutant: the power without the voltage factor
Q_total_NoVoltage == RMul(config_.eta, R(config_.I))

\* Q_total_ = eta * V * I
Q_total_ == RMul(config_.eta, R(config_.V * config_.I))
t_end_ == RAdd(Norm(config_.Lx - config_.x_start, config_.v_weld), R(10))
nt_ == Ceil(RDiv(t_end_, config_.dt))

\* ------------------------------------------------------------------
\* cpp-weld-2: materials (class Material, initializeMaterials)
mat_1_ == [rho |-> config_.mat_1_rho, cp |-> config_.mat_1_cp, k |-> config_.mat_1_k,
           T_melt |-> config_.mat_1_T_melt, T_crit |-> config_.mat_1_T_crit]
mat_2_ == [rho |-> config_.mat_2_rho, cp |-> config_.mat_2_cp, k |-> config_.mat_2_k,
           T_melt |-> config_.mat_2_T_melt, T_crit |-> config_.mat_2_T_crit]
\* mutant: the sum of the two melting temperatures, not their mean
T_melt_Sum == R(mat_1_.T_melt + mat_2_.T_melt)

T_melt_ == Norm(mat_1_.T_melt + mat_2_.T_melt, 2)
T_crit_ == Norm(mat_1_.T_crit + mat_2_.T_crit, 2)

\* fraction (T - T_crit) / (T_melt - T_crit) of the interpolation regime
Frac(m, temp) == Norm(temp - m.T_crit, m.T_melt - m.T_crit)

\* mutant: from T_melt on the conductivity falls back to its base value
Material_get_k_NoTarget(m, temp) ==
    IF temp < m.T_crit THEN R(m.k)
    ELSE IF temp < m.T_melt
         THEN RMul(R(m.k), RAdd(R(1), RMul(Frac(m, temp), <<1, 10>>)))
         ELSE R(m.k)

Material_get_k(m, temp) ==
    IF temp < m.T_crit THEN R(m.k)
    ELSE IF temp < m.T_melt
         THEN RMul(R(m.k), RAdd(R(1), RMul(Frac(m, temp), <<1, 10>>)))
         ELSE RMul(R(m.k), <<11, 10>>)

Material_get_cp(m, temp) ==
    IF temp < m.T_crit THEN R(m.cp)
    ELSE IF temp < m.T_melt
         THEN RMul(R(m.cp), RAdd(R(1), RMul(Frac(m, temp), <<1, 5>>)))
         ELSE RMul(R(m.cp), <<6, 5>>)

Material_get_rho(m, temp) ==
    IF temp < m.T_crit THEN R(m.rho)
    ELSE IF temp < m.T_melt
         THEN RMul(R(m.rho), RSub(R(1), RMul(Frac(m, temp), <<1, 20>>)))
         ELSE RMul(R(m.rho), <<19, 20>>)

\* mutant: a cell exactly on the midpoint is given the first material
MaterialOf_MidpointFirst(index) == IF RLe(X_(index), midpoint_) THEN mat_1_ ELSE mat_2_

\* computeMaterialProperties: the material of a cell and its three properties
MaterialOf_(index) == IF RLt(X_(index), midpoint_) THEN mat_1_ ELSE mat_2_
computeMaterialProperties(T_vec) ==
    [c \in Cells_ |->
        [k   |-> Material_get_k(MaterialOf_(c), T_vec[c]),
         cp  |-> Material_get_cp(MaterialOf_(c), T_vec[c]),
         rho |-> Material_get_rho(MaterialOf_(c), T_vec[c])]]

\* the coefficient (f * Q_total) / (a * b * pi) of one half of the source
GoldakCoeff_(f) == RDiv(RMul(f, Q_total_), RMul(R(config_.a * config_.b), PI_R))

\* ------------------------------------------------------------------
\* cpp-weld-2: heat source
computeGoldakHeatFlux(x_arc) ==
    LET a_sq == R(config_.a * config_.a)
        b_sq == R(config_.b * config_.b)
        coeff_f == GoldakCoeff_(config_.ff)
        coeff_r == GoldakCoeff_(config_.fr)
    IN  [c \in Cells_ |->
            LET xi == RSub(X_(c), x_arc)
                eta == RSub(Y_(c), R(config_.y_arc))
                z == RAdd(RDiv(RMul(xi, xi), a_sq), RDiv(RMul(eta, eta), b_sq))
            IN  IF xi[1] >= 0 THEN Round(RMul(coeff_f, ExpNeg(z)))
                ELSE Round(RMul(coeff_r, ExpNeg(z)))]

\* mutant: the source is evaluated wherever the arc is
ArcOnPlate_Always(x_arc) == TRUE

\* run(): the source of one iteration; Qvol starts as zeros and is filled
\* only while the arc is on the plate
ArcOnPlate_(x_arc) == RLe(x_arc, R(config_.Lx))
SourceOfStep_(x_arc) ==
    IF ArcOnPlate_(x_arc)
    THEN LET q_surf == computeGoldakHeatFlux(x_arc)
         IN  [c \in Cells_ |-> Round(Norm(q_surf[c], config_.thickness))]
    ELSE [c \in Cells_ |-> 0]

\* ------------------------------------------------------------------
\* cpp-weld-2: solveTimeStep
\* numerical ceiling, in units of 100 K
T_MAX_REASONABLE == 50

\* 1/dx^2 + 1/dy^2
InvSq_ == RAdd(RInv(RMul(dx_, dx_)), RInv(RMul(dy_, dy_)))

max_dt_stable(alpha) == RDiv(<<2, 5>>, RMul(alpha, InvSq_))
\* mutant: the step taken is ten nominal steps long
dt_effective_Tenfold(alpha) == RMul(R(10), config_.dt)

\* mutant: the nominal step is used whatever the local bound
dt_effective_Nominal(alpha) == config_.dt

dt_effective(alpha) == RMin(config_.dt, max_dt_stable(alpha))

\* mutant: no clamp
Clamp_None(v) == v

\* the clamp applied to an interior value after the update
Clamp(v) ==
    IF v > T_MAX_REASONABLE THEN T_MAX_REASONABLE
    ELSE IF v < config_.T0 THEN config_.T0
    ELSE v

\* mutant: boundary cells keep the zero the new vector was created with
BoundaryValue_Zero == config_.T0 - config_.T0

\* the value written to a boundary cell
BoundaryValue_ == config_.T0

\* the locals of the interior branch for one cell
InteriorUpdate(Tf, Qvol, props, c) ==
    LET i == col_(c)
        j == row_(c)
        rho_cp == RMul(props[c].rho, props[c].cp)
        alpha == RDiv(props[c].k, rho_cp)
        d2T_dx2 == RDiv(R(Tf[idx(i + 1, j)] - 2 * Tf[c] + Tf[idx(i - 1, j)]),
                        RMul(dx_, dx_))
        d2T_dy2 == RDiv(R(Tf[idx(i, j + 1)] - 2 * Tf[c] + Tf[idx(i, j - 1)]),
                        RMul(dy_, dy_))
        heat_source == RDiv(R(Qvol[c]), rho_cp)
        dte == dt_effective(alpha)
        rate == RAdd(RMul(alpha, RAdd(d2T_dx2, d2T_dy2)), heat_source)
    IN  [alpha |-> alpha, dt_effective |-> dte,
         T_new |-> Clamp(Round(RAdd(R(Tf[c]), RMul(dte, rate))))]

\* the new field: boundary cells fixed, interior cells advanced from the
\* old field only
NewField_(Tf, Qvol) ==
    LET props == computeMaterialProperties(Tf)
    IN  [c \in Cells_ |->
            IF isBoundary(col_(c), row_(c)) THEN BoundaryValue_
            ELSE InteriorUpdate(Tf, Qvol, props, c).T_new]

\* mutants of the peak update: the peak tracks the current field; the peak
\* is never updated
UpdateTmax_Current(Tmax, Tf) == Tf
UpdateTmax_Stale(Tmax, Tf) == Tmax

\* the running peak after a step
UpdateTmax_(Tmax, Tf) == [c \in Cells_ |-> IF Tmax[c] < Tf[c] THEN Tf[c] ELSE Tmax[c]]

\* setupMonitoringPoints: the three probes, as cell indices
monitor_pts_ ==
    << idx((nx_ * 35) \div 100, ny_ \div 2),
       idx(nx_ \div 2, ny_ \div 2),
       idx((nx_ * 65) \div 100, ny_ \div 2) >>

\* mutant: only the latest sample is kept
updateMonitoring_Latest(t, Tf) ==
    [time |-> <<t>>, T |-> [k \in 1..3 |-> <<Tf[monitor_pts_[k]]>>]]

\* updateMonitoring: t and the probes' temperatures are pushed back
updateMonitoring(t, Tf) ==
    [time |-> Append(time_history_, t),
     T    |-> [k \in 1..3 |-> Append(T_history_[k], Tf[monitor_pts_[k]])]]

\* mutant: the HAZ mask lacks its upper bound
computeZones_NoUpper(Tmax) ==
    [fusion |-> [c \in Cells_ |-> RLe(T_melt_, R(Tmax[c]))],
     HAZ    |-> [c \in Cells_ |-> RLe(T_crit_, R(Tmax[c]))]]

\* computeZones
computeZones(Tmax) ==
    [fusion |-> [c \in Cells_ |-> RLe(T_melt_, R(Tmax[c]))],
     HAZ    |-> [c \in Cells_ |-> RLe(T_crit_, R(Tmax[c])) /\ RLt(R(Tmax[c]), T_melt_)]]

\* ------------------------------------------------------------------
\* cpp-weld-2: run().  One action is one iteration of the time loop:
\* clock, arc position, source, solveTimeStep, updateMonitoring and the
\* progress indicator.
RunBody ==
    LET t == RAdd(t_, config_.dt)
        x_arc == RAdd(R(config_.x_start), RMul(R(config_.v_weld), t))
        Qvol == SourceOfStep_(x_arc)
        props == computeMaterialProperties(T_)
        Tn == NewField_(T_, Qvol)
    IN  /\ t_' = t
        /\ step_' = step_ + 1
        /\ Qvol_' = Qvol
        /\ goldak_called_' = ArcOnPlate_(x_arc)
        /\ T_' = Tn
        /\ T_max_' = UpdateTmax_(T_max_, Tn)
        /\ alpha_' = [c \in Interior_ |-> InteriorUpdate(T_, Qvol, props, c).alpha]
        /\ dt_effective_' =
               [c \in Interior_ |-> InteriorUpdate(T_, Qvol, props, c).dt_effective]
        /\ time_history_' = updateMonitoring(t, Tn).time
        /\ T_history_' = updateMonitoring(t, Tn).T
        /\ UNCHANGED <<config_, fusion_zone_, HAZ_zone_>>

\* the progress indicator evaluates step % (nt_ / 10): with nt_ < 10 the
\* divisor is 0 and the behaviour is undefined
ProgressDivisor == nt_ \div 10

RunStep ==
    /\ program = "cpp-weld-2"
    /\ pc_ = "running"
    /\ step_ < nt_
    /\ RunBody
    /\ \/ /\ ProgressDivisor # 0
          /\ pc_' = "running"
       \/ /\ ProgressDivisor = 0      \* undefined: the division traps ...
          /\ pc_' = "crashed"
       \/ /\ ProgressDivisor = 0      \* ... or yields some value and goes on
          /\ pc_' = "running"
    /\ UNCHANGED <<program, zones_step_, vars1, varsSweep>>

\* computeZones fills two std::vector<bool> from an OpenMP parallel loop.
\* The elements of a vector<bool> are bits of shared words, so the writes
\* of different workers to one word are a data race: a worker may write
\* back a word it read before another worker set a bit in it.  The masks
\* start all false, so the vector that results holds any subset of the
\* bits that mask sets (all of them when no write is lost).
LostWrites(mask) ==
    {[c \in Cells_ |-> c \in S] : S \in SUBSET {c \in Cells_ : mask[c]}}

\* after the loop: printStatistics, which calls computeZones
RunFinish ==
    /\ program = "cpp-weld-2"
    /\ pc_ = "running"
    /\ ~(step_ < nt_)
    /\ pc_' = "done"
    /\ fusion_zone_' \in LostWrites(computeZones(T_max_).fusion)
    /\ HAZ_zone_' \in LostWrites(computeZones(T_max_).HAZ)
    /\ zones_step_' = step_
    /\ UNCHANGED <<program, vars1, varsSweep, config_, T_, T_max_, t_, step_, Qvol_,
                   goldak_called_, alpha_, dt_effective_, time_history_, T_history_>>

\* ------------------------------------------------------------------
\* cpp-weld: grid and free functions (class TIGSimulator)
N == config.nx * config.ny
Cells == 0..(N - 1)
dx == Norm(config.Lx, config.nx - 1)
dy == Norm(config.Ly, config.ny - 1)
midpoint == Norm(config.Lx, 2)
col(i) == i % config.nx
row(i) == i \div config.nx
X(i) == RMul(R(col(i)), dx)
Y(i) == RAdd(Norm(-config.Ly, 2), RMul(R(row(i)), dy))
InteriorCells == {i \in Cells : /\ 1 <= row(i) /\ row(i) < config.ny - 1
                                /\ 1 <= col(i) /\ col(i) < config.nx - 1}
BoundaryCells ==
    {i \in Cells : \/ row(i) = 0 \/ row(i) = config.ny - 1
                   \/ col(i) = 0 \/ col(i) = config.nx - 1}

get_k(temp, k_base, T_crit, T_melt) ==
    IF temp < T_crit THEN R(k_base)
    ELSE IF temp < T_melt
         THEN RMul(R(k_base),
                   RAdd(R(1), RMul(Norm(temp - T_crit, T_melt - T_crit), <<1, 10>>)))
         ELSE RMul(R(k_base), <<11, 10>>)

get_cp(temp, cp_base, T_crit, T_melt) ==
    IF temp < T_crit THEN R(cp_base)
    ELSE IF temp < T_melt
         THEN RMul(R(cp_base),
                   RAdd(R(1), RMul(Norm(temp - T_crit, T_melt - T_crit), <<1, 5>>)))
         ELSE RMul(R(cp_base), <<6, 5>>)

get_rho(temp, rho_base, T_crit, T_melt) ==
    IF temp < T_crit THEN R(rho_base)
    ELSE IF temp < T_melt
         THEN RMul(R(rho_base),
                   RSub(R(1), RMul(Norm(temp - T_crit, T_melt - T_crit), <<1, 20>>)))
         ELSE RMul(R(rho_base), <<19, 20>>)

\* the coefficient (6 * f * Q) / (a * b * c * PI * SQRT_PI) of one half
goldak_coeff(f, c, Q) ==
    RDiv(RMul(R(6), RMul(f, Q)),
         RMul(R(config.a * config.b * c), RMul(PI_R, SQRT_PI_R)))

goldak_heat_flux(x_arc, Q) ==
    LET b_sq == R(config.b * config.b)
        cf_sq == R(config.cf * config.cf)
        cr_sq == R(config.cr * config.cr)
        coeff_f == goldak_coeff(config.ff, config.cf, Q)
        coeff_r == goldak_coeff(config.fr, config.cr, Q)
    IN  [i \in Cells |->
            LET xi == RSub(X(i), x_arc)
                eta == RSub(Y(i), R(config.y_arc))
                eta_sq == RMul(eta, eta)
            IN  IF xi[1] >= 0
                THEN Round(RMul(coeff_f, ExpNeg(RMul(R(3),
                         RAdd(RDiv(RMul(xi, xi), cf_sq), RDiv(eta_sq, b_sq))))))
                ELSE Round(RMul(coeff_r, ExpNeg(RMul(R(3),
                         RAdd(RDiv(RMul(xi, xi), cr_sq), RDiv(eta_sq, b_sq))))))]

compute_material_properties(Tf) ==
    [i \in Cells |->
        LET k_val == IF RLt(X(i), midpoint)
                THEN get_k(Tf[i], config.mat_1_k, config.mat_1_T_crit, config.mat_1_T_melt)
                ELSE get_k(Tf[i], config.mat_2_k, config.mat_2_T_crit, config.mat_2_T_melt)
            cp_val == IF RLt(X(i), midpoint)
                THEN get_cp(Tf[i], config.mat_1_cp, config.mat_1_T_crit, config.mat_1_T_melt)
                ELSE get_cp(Tf[i], config.mat_2_cp, config.mat_2_T_crit, config.mat_2_T_melt)
            rho_val == IF RLt(X(i), midpoint)
                THEN get_rho(Tf[i], config.mat_1_rho, config.mat_1_T_crit, config.mat_1_T_melt)
                ELSE get_rho(Tf[i], config.mat_2_rho, config.mat_2_T_crit, config.mat_2_T_melt)
        IN  [k |-> k_val, cp |-> cp_val, rho |-> rho_val,
             alpha |-> RDiv(k_val, RMul(rho_val, cp_val))]]

ArcOnPlate(x_arc) == RLe(x_arc, R(config.Lx))
\* apply_heat_source: Q_total = eta * V * I
Q_total == RMul(config.eta, R(config.V * config.I))
apply_heat_source(t) ==
    LET x_arc == RAdd(R(config.x_start), RMul(R(config.v_weld), t))
    IN  IF ArcOnPlate(x_arc)
        THEN goldak_heat_flux(x_arc, Q_total)
        ELSE [i \in Cells |-> 0]

\* time_step_explicit: T_new starts as zeros; the interior sweep, then the
\* two boundary loops
time_step_explicit(Tf, Qv, props) ==
    [i \in Cells |->
        IF i \in BoundaryCells THEN config.T0
        ELSE IF i \in InteriorCells
        THEN LET alpha == props[i].alpha
                 d2Tdx2 == RDiv(R(Tf[i + 1] - 2 * Tf[i] + Tf[i - 1]), RMul(dx, dx))
                 d2Tdy2 == RDiv(R(Tf[i + config.nx] - 2 * Tf[i] + Tf[i - config.nx]),
                                RMul(dy, dy))
                 heat_source == RDiv(R(Qv[i]), RMul(props[i].rho, props[i].cp))
             IN  Round(RAdd(R(Tf[i]),
                            RMul(config.dt,
                                 RAdd(RMul(alpha, RAdd(d2Tdx2, d2Tdy2)), heat_source))))
        ELSE 0]

\* the peak update of time_step_explicit
UpdateTmax(Tmax, Tf) == [i \in Cells |-> IF Tf[i] > Tmax[i] THEN Tf[i] ELSE Tmax[i]]

nt == Ceil(RDiv(RAdd(Norm(config.Lx - config.x_start, config.v_weld), R(10)), config.dt))

\* run_simulation: one iteration of the loop
TigStep ==
    /\ program = "cpp-weld"
    /\ pc = "running"
    /\ step < nt
    /\ LET t == RMul(R(step + 1), config.dt)
           x_arc == RAdd(R(config.x_start), RMul(R(config.v_weld), t))
           Qv == apply_heat_source(t)
           Tn == time_step_explicit(T, Qv, compute_material_properties(T))
       IN  /\ Q_vol' = Qv
           /\ goldak_called' = ArcOnPlate(x_arc)
           /\ T' = Tn
           /\ T_max' = UpdateTmax(T_max, Tn)
    /\ step' = step + 1
    /\ UNCHANGED <<program, zones_step_, vars2, varsSweep, config, pc, fusion_count, haz_count>>

\* analyze_results: the if / else-if counting
CountFusion(Tmax) ==
    Cardinality({i \in Cells :
        RLe(Norm(config.mat_1_T_melt + config.mat_2_T_melt, 2), R(Tmax[i]))})
CountHaz(Tmax) ==
    Cardinality({i \in Cells :
        /\ ~RLe(Norm(config.mat_1_T_melt + config.mat_2_T_melt, 2), R(Tmax[i]))
        /\ RLe(Norm(config.mat_1_T_crit + config.mat_2_T_crit, 2), R(Tmax[i]))})

TigFinish ==
    /\ program = "cpp-weld"
    /\ pc = "running"
    /\ ~(step < nt)
    /\ pc' = "done"
    /\ fusion_count' = CountFusion(T_max)
    /\ haz_count' = CountHaz(T_max)
    /\ UNCHANGED <<program, zones_step_, vars2, varsSweep, config, T, T_max, Q_vol, goldak_called,
                   step>>

\* ------------------------------------------------------------------
Init ==
    /\ program \in Programs
    /\ \E c \in Configs(program) :
          /\ config_ = AdjustEfficiency(c)
          /\ config = c
    /\ T_ = [c \in Cells_ |-> config_.T0]
    /\ T_max_ = [c \in Cells_ |-> config_.T0]
    /\ t_ = R(0)
    /\ step_ = 0
    /\ pc_ = "running"
    /\ Qvol_ = [c \in Cells_ |-> 0]
    /\ goldak_called_ = FALSE
    /\ alpha_ = [c \in Interior_ |-> R(0)]
    /\ dt_effective_ = [c \in Interior_ |-> R(0)]
    /\ time_history_ = <<>>
    /\ T_history_ = [k \in 1..3 |-> <<>>]
    /\ fusion_zone_ = [c \in Cells_ |-> FALSE]
    /\ HAZ_zone_ = [c \in Cells_ |-> FALSE]
    /\ T = [i \in Cells |-> config.T0]
    /\ T_max = [i \in Cells |-> config.T0]
    /\ Q_vol = [i \in Cells |-> 0]
    /\ goldak_called = FALSE
    /\ step = 0 /\ pc = "running" /\ fusion_count = 0 /\ haz_count = 0
    /\ T_new_ = <<>> /\ swept_ = {} /\ T_new = <<>> /\ swept = {}
    /\ zones_step_ = -1

Next == RunStep \/ RunFinish \/ TigStep \/ TigFinish

Spec == Init /\ [][Next]_vars

\* ------------------------------------------------------------------
\* cpp-weld-2 from main(): the configuration struct as main() holds it when
\* the command line has been read (config.weld_process already assigned
\* from --weld_process, not yet validated), then the validation and the
\* construction of the simulation.
\* the smallest grid size for which initializeGrid reads x_[1] and y_[1]
\* inside the vectors
MinGrid == 2
OptionProcesses == {"TIG", "Electrode", "MIG"}
EtaInputs == {<<17, 20>>, <<1, 2>>}
MainConfigs ==
    { [c EXCEPT !.nx = gx, !.ny = gy, !.eta = e, !.weld_process = wp] :
        c \in {b \in Configs("cpp-weld-2") :
                  /\ b.nx = 3 /\ b.ny = 3 /\ b.V = 25
                  /\ b.mat_2_k # b.mat_1_k /\ b.weld_process = "TIG"},
        gx \in MinGrid..(MinGrid + 1), gy \in MinGrid..(MinGrid + 1),
        e \in EtaInputs, wp \in OptionProcesses }

\* mutant: any process name is accepted
ValidProcess_Any(wp) == TRUE

\* main(): the check applied to --weld_process
ValidProcess(wp) == wp = "TIG" \/ wp = "Electrode"

Init_Main ==
    /\ program = "cpp-weld-2"
    /\ \E c \in MainConfigs :
          /\ config_ = c
          /\ config = c
    /\ pc_ = "main"
    /\ T_ = <<>> /\ T_max_ = <<>>
    /\ t_ = R(0)
    /\ step_ = 0
    /\ Qvol_ = <<>>
    /\ goldak_called_ = FALSE
    /\ alpha_ = <<>> /\ dt_effective_ = <<>>
    /\ time_history_ = <<>> /\ T_history_ = <<>>
    /\ fusion_zone_ = <<>> /\ HAZ_zone_ = <<>>
    /\ T = [i \in Cells |-> config.T0]
    /\ T_max = [i \in Cells |-> config.T0]
    /\ Q_vol = [i \in Cells |-> 0]
    /\ goldak_called = FALSE
    /\ step = 0 /\ pc = "running" /\ fusion_count = 0 /\ haz_count = 0
    /\ T_new_ = <<>> /\ swept_ = {} /\ T_new = <<>> /\ swept = {}
    /\ zones_step_ = -1

\* main(): an invalid --weld_process ends the program with an error; else
\* the simulation is constructed (WeldingSimulation::WeldingSimulation)
Main ==
    /\ program = "cpp-weld-2"
    /\ pc_ = "main"
    /\ IF ValidProcess(config_.weld_process)
       THEN /\ pc_' = "running"
            /\ config_' = AdjustEfficiency(config_)
            /\ T_' = [c \in Cells_ |-> config_.T0]
            /\ T_max_' = [c \in Cells_ |-> config_.T0]
            /\ Qvol_' = [c \in Cells_ |-> 0]
            /\ alpha_' = [c \in Interior_ |-> R(0)]
            /\ dt_effective_' = [c \in Interior_ |-> R(0)]
            /\ T_history_' = [k \in 1..3 |-> <<>>]
            /\ fusion_zone_' = [c \in Cells_ |-> FALSE]
            /\ HAZ_zone_' = [c \in Cells_ |-> FALSE]
       ELSE /\ pc_' = "rejected"
            /\ UNCHANGED <<config_, T_, T_max_, Qvol_, alpha_, dt_effective_,
                           T_history_, fusion_zone_, HAZ_zone_>>
    /\ UNCHANGED <<program, zones_step_, vars1, varsSweep, t_, step_, goldak_called_, time_history_>>

Next_Main == Main \/ RunStep \/ RunFinish

SpecMain == Init_Main /\ [][Next_Main]_vars

\* ------------------------------------------------------------------
\* One time step at the grain of the parallel loops.  An iteration of a
\* parallel loop is one step of some worker; the iterations of one loop
\* run in any order, the loops of a function one after the other.
SweepConfigs(prog) ==
    IF prog = "cpp-weld-2"
    THEN {c \in Configs(prog) :
             /\ c.nx = 4 /\ c.ny = 3 /\ c.V = 25 /\ c.v_weld = 15 /\ c.dt = <<2, 1>>
             /\ c.mat_2_k # c.mat_1_k /\ c.weld_process = "TIG" /\ c.use_gas}
    ELSE {[c EXCEPT !.ny = 4] : c \in {b \in Configs(prog) :
             /\ b.nx = 3 /\ b.ny = 3 /\ b.V = 25 /\ b.v_weld = 15 /\ b.dt = <<2, 1>>
             /\ b.mat_2_k # b.mat_1_k /\ b.weld_process = "TIG" /\ b.use_gas}}

Init_Sweep ==
    /\ program \in Programs
    /\ \E c \in SweepConfigs(program) :
          /\ config_ = AdjustEfficiency(c)
          /\ config = c
    /\ T_ = [c \in Cells_ |-> config_.T0]
    /\ T_max_ = [c \in Cells_ |-> config_.T0]
    /\ t_ = R(0)
    /\ step_ = 0
    /\ pc_ = "running"
    /\ Qvol_ = [c \in Cells_ |-> 0]
    /\ goldak_called_ = FALSE
    /\ alpha_ = [c \in Interior_ |-> R(0)]
    /\ dt_effective_ = [c \in Interior_ |-> R(0)]
    /\ time_history_ = <<>>
    /\ T_history_ = [k \in 1..3 |-> <<>>]
    /\ fusion_zone_ = [c \in Cells_ |-> FALSE]
    /\ HAZ_zone_ = [c \in Cells_ |-> FALSE]
    /\ T = [i \in Cells |-> config.T0]
    /\ T_max = [i \in Cells |-> config.T0]
    /\ Q_vol = [i \in Cells |-> 0]
    /\ goldak_called = FALSE
    /\ step = 0 /\ pc = "running" /\ fusion_count = 0 /\ haz_count = 0
    /\ T_new_ = <<>> /\ swept_ = {} /\ T_new = <<>> /\ swept = {}
    /\ zones_step_ = -1

\* mutant: the sweep updates in place, a cell already written is read with
\* its new value
ReadField_InPlace == [c \in Cells_ |-> IF c \in swept_ THEN T_new_[c] ELSE T_[c]]

\* solveTimeStep: the field the stencil reads, T_[idx_xp], T_[index], ...
ReadField_ == T_

\* run(): the head of an iteration up to the parallel loop of solveTimeStep
SweepBegin ==
    /\ program = "cpp-weld-2"
    /\ pc_ = "running"
    /\ step_ < nt_
    /\ LET t == RAdd(t_, config_.dt)
           x_arc == RAdd(R(config_.x_start), RMul(R(config_.v_weld), t))
       IN  /\ t_' = t
           /\ Qvol_' = SourceOfStep_(x_arc)
           /\ goldak_called_' = ArcOnPlate_(x_arc)
    /\ T_new_' = [c \in Cells_ |-> 0]
    /\ swept_' = {}
    /\ pc_' = "sweeping"
    /\ UNCHANGED <<program, zones_step_, vars1, config_, T_, T_max_, step_, alpha_, dt_effective_,
                   time_history_, T_history_, fusion_zone_, HAZ_zone_, T_new, swept>>

\* solveTimeStep: one iteration (i, j) of the collapsed parallel loop
SweepCell ==
    /\ program = "cpp-weld-2"
    /\ pc_ = "sweeping"
    /\ \E c \in Cells_ \ swept_ :
          /\ swept_' = swept_ \cup {c}
          /\ IF isBoundary(col_(c), row_(c))
             THEN /\ T_new_' = [T_new_ EXCEPT ![c] = BoundaryValue_]
                  /\ UNCHANGED <<alpha_, dt_effective_>>
             ELSE LET u == InteriorUpdate(ReadField_, Qvol_,
                                          computeMaterialProperties(T_), c)
                  IN  /\ T_new_' = [T_new_ EXCEPT ![c] = u.T_new]
                      /\ alpha_' = [alpha_ EXCEPT ![c] = u.alpha]
                      /\ dt_effective_' = [dt_effective_ EXCEPT ![c] = u.dt_effective]
    /\ UNCHANGED <<program, zones_step_, vars1, config_, T_, T_max_, t_, step_, pc_, Qvol_,
                   goldak_called_, time_history_, T_history_, fusion_zone_, HAZ_zone_,
                   T_new, swept>>

\* solveTimeStep after the loop (T_ = T_new, the peak update), then the
\* rest of the iteration of run(): updateMonitoring, progress indicator
SweepEnd ==
    /\ program = "cpp-weld-2"
    /\ pc_ = "sweeping"
    /\ swept_ = Cells_
    /\ T_' = T_new_
    /\ T_max_' = UpdateTmax_(T_max_, T_new_)
    /\ time_history_' = updateMonitoring(t_, T_new_).time
    /\ T_history_' = updateMonitoring(t_, T_new_).T
    /\ step_' = step_ + 1
    /\ T_new_' = <<>>
    /\ swept_' = {}
    /\ \/ /\ ProgressDivisor # 0
          /\ pc_' = "running"
       \/ /\ ProgressDivisor = 0
          /\ pc_' = "crashed"
       \/ /\ ProgressDivisor = 0
          /\ pc_' = "running"
    /\ UNCHANGED <<program, zones_step_, vars1, config_, t_, Qvol_, goldak_called_, alpha_,
                   dt_effective_, fusion_zone_, HAZ_zone_, T_new, swept>>

\* time_step_explicit: the field the stencil reads, T[idx_xp], T[idx], ...
ReadField == T
RowInterior(j) == {i \in InteriorCells : i \div config.nx = j}

\* run_simulation: the head of an iteration up to the first parallel loop
\* of time_step_explicit
TigSweepBegin ==
    /\ program = "cpp-weld"
    /\ pc = "running"
    /\ step < nt
    /\ LET t == RMul(R(step + 1), config.dt)
           x_arc == RAdd(R(config.x_start), RMul(R(config.v_weld), t))
       IN  /\ Q_vol' = apply_heat_source(t)
           /\ goldak_called' = ArcOnPlate(x_arc)
    /\ T_new' = [i \in Cells |-> 0]
    /\ swept' = {}
    /\ pc' = "interior"
    /\ UNCHANGED <<program, zones_step_, vars2, config, T, T_max, step, fusion_count, haz_count,
                   T_new_, swept_>>

\* time_step_explicit: one iteration j of the parallel loop over the
\* interior rows
TigSweepRow ==
    /\ program = "cpp-weld"
    /\ pc = "interior"
    /\ \E j \in 1..(config.ny - 2) :
          /\ ~(RowInterior(j) \subseteq swept)
          /\ LET Tn == time_step_explicit(ReadField, Q_vol,
                                          compute_material_properties(T))
             IN  T_new' = [i \in Cells |->
                              IF i \in RowInterior(j) THEN Tn[i] ELSE T_new[i]]
          /\ swept' = swept \cup RowInterior(j)
    /\ UNCHANGED <<program, zones_step_, vars2, config, T, T_max, Q_vol, goldak_called, step, pc,
                   fusion_count, haz_count, T_new_, swept_>>

\* time_step_explicit: the two boundary loops
TigSweepBoundary ==
    /\ program = "cpp-weld"
    /\ pc = "interior"
    /\ swept = InteriorCells
    /\ T_new' = [i \in Cells |-> IF i \in BoundaryCells THEN config.T0 ELSE T_new[i]]
    /\ swept' = swept \cup BoundaryCells
    /\ pc' = "copy"
    /\ UNCHANGED <<program, zones_step_, vars2, config, T, T_max, Q_vol, goldak_called, step,
                   fusion_count, haz_count, T_new_, swept_>>

\* time_step_explicit: the loop that copies T_new to T and updates T_max
TigSweepEnd ==
    /\ program = "cpp-weld"
    /\ pc = "copy"
    /\ T' = T_new
    /\ T_max' = UpdateTmax(T_max, T_new)
    /\ step' = step + 1
    /\ T_new' = <<>>
    /\ swept' = {}
    /\ pc' = "running"
    /\ UNCHANGED <<program, zones_step_, vars2, config, Q_vol, goldak_called, fusion_count,
                   haz_count, T_new_, swept_>>

Next_Sweep ==
    \/ SweepBegin \/ SweepCell \/ SweepEnd \/ RunFinish
    \/ TigSweepBegin \/ TigSweepRow \/ TigSweepBoundary \/ TigSweepEnd \/ TigFinish

SpecSweep == Init_Sweep /\ [][Next_Sweep]_vars

\* ------------------------------------------------------------------
\* cpp-weld-2 with the zones evaluated on demand: computeZones, which the
\* program calls from printStatistics after the loop, called also between
\* the iterations of the loop, at most once after each step.
ZoneConfigs ==
    {c \in Configs("cpp-weld-2") :
        /\ c.nx = 4 /\ c.ny = 3 /\ c.V = 25 /\ c.weld_process = "TIG" /\ c.use_gas}

Init_Zones ==
    /\ program = "cpp-weld-2"
    /\ \E c \in ZoneConfigs :
          /\ config_ = AdjustEfficiency(c)
          /\ config = c
    /\ T_ = [c \in Cells_ |-> config_.T0]
    /\ T_max_ = [c \in Cells_ |-> config_.T0]
    /\ t_ = R(0)
    /\ step_ = 0
    /\ pc_ = "running"
    /\ Qvol_ = [c \in Cells_ |-> 0]
    /\ goldak_called_ = FALSE
    /\ alpha_ = [c \in Interior_ |-> R(0)]
    /\ dt_effective_ = [c \in Interior_ |-> R(0)]
    /\ time_history_ = <<>>
    /\ T_history_ = [k \in 1..3 |-> <<>>]
    /\ fusion_zone_ = [c \in Cells_ |-> FALSE]
    /\ HAZ_zone_ = [c \in Cells_ |-> FALSE]
    /\ T = [i \in Cells |-> config.T0]
    /\ T_max = [i \in Cells |-> config.T0]
    /\ Q_vol = [i \in Cells |-> 0]
    /\ goldak_called = FALSE
    /\ step = 0 /\ pc = "running" /\ fusion_count = 0 /\ haz_count = 0
    /\ T_new_ = <<>> /\ swept_ = {} /\ T_new = <<>> /\ swept = {}
    /\ zones_step_ = -1

\* computeZones called after step step_; like every call it fills the two
\* masks from the parallel loop
EvalZones ==
    /\ program = "cpp-weld-2"
    /\ pc_ = "running"
    /\ zones_step_ < step_
    /\ fusion_zone_' \in LostWrites(computeZones(T_max_).fusion)
    /\ HAZ_zone_' \in LostWrites(computeZones(T_max_).HAZ)
    /\ zones_step_' = step_
    /\ UNCHANGED <<program, vars1, varsSweep, config_, T_, T_max_, t_, step_, pc_, Qvol_,
                   goldak_called_, alpha_, dt_effective_, time_history_, T_history_>>

Next_Zones == RunStep \/ EvalZones \/ RunFinish

SpecZones == Init_Zones /\ [][Next_Zones]_vars

\* ==================================================================
\* Properties
\* ==================================================================
\* the arc position x_start + v_weld * t of the current clock is beyond Lx
\* (t_ = <<n, d>>; the clock of cpp-weld is step * dt)
ArcGone_ == config_.x_start * t_[2] + config_.v_weld * t_[1] > config_.Lx * t_[2]
ArcGone == config.x_start * config.dt[2] + config.v_weld * step * config.dt[1]
               > config.Lx * config.dt[2]
OnEdge_(c) == \/ c % config_.nx \in {0, config_.nx - 1}
              \/ c \div config_.nx \in {0, config_.ny - 1}
OnEdge(i) == \/ i % config.nx \in {0, config.nx - 1}
             \/ i \div config.nx \in {0, config.ny - 1}

\* C1: across every step of either program the peak field of every cell
\* does not decrease.
C1_PeakNonDecreasing ==
    [][ /\ \A c \in Cells_ : T_max_'[c] >= T_max_[c]
        /\ \A i \in Cells : T_max'[i] >= T_max[i] ]_vars
\* a cell has cooled below the peak it reached earlier
C1_Witness ==
    /\ program = "cpp-weld"
    /\ step >= 2
    /\ \E i \in Cells : T[i] < T_max[i] /\ T_max[i] > config.T0

\* C2: between steps, from the initial state on, the peak of every cell is
\* at least its current temperature.
C2_PeakAboveCurrent ==
    /\ \A c \in Cells_ : T_max_[c] >= T_[c]
    /\ \A i \in Cells : T_max[i] >= T[i]
C2_Witness ==
    /\ program = "cpp-weld-2"
    /\ step_ >= 2
    /\ \E c \in Cells_ : T_max_[c] > T_[c]
    /\ \E c \in Cells_ : T_max_[c] = T_[c] /\ T_[c] > config_.T0

\* C3: after every step of either program every cell on the edge of the
\* grid holds exactly T0.
C3_BoundaryAtT0 ==
    /\ step_ >= 1 => \A c \in Cells_ : OnEdge_(c) => T_[c] = config_.T0
    /\ step >= 1 => \A i \in Cells : OnEdge(i) => T[i] = config.T0
\* a step taken from a field with a hot interior and a live source
C3_Witness ==
    /\ program = "cpp-weld-2"
    /\ step_ >= 2
    /\ \E c \in Cells_ : OnEdge_(c) /\ Qvol_[c] > 0
    /\ \E c \in Cells_ : ~OnEdge_(c) /\ T_[c] > config_.T0

\* C4: with zero power (eta * V * I = 0) and the field T0 at the start, the
\* current and the peak field stay T0 in every cell.
C4_NoSpuriousHeating ==
    /\ (program = "cpp-weld-2" /\ config_.V * config_.I = 0) =>
           \A c \in Cells_ : T_[c] = config_.T0 /\ T_max_[c] = config_.T0
    /\ (program = "cpp-weld" /\ config.V * config.I = 0) =>
           \A i \in Cells : T[i] = config.T0 /\ T_max[i] = config.T0
\* several steps taken with zero power, the last one with the arc on the plate
C4_Witness ==
    /\ program = "cpp-weld-2"
    /\ config_.V * config_.I = 0
    /\ step_ >= 3
    /\ goldak_called_

\* C5: after every call of solveTimeStep every cell is within
\* [T0, T_MAX_REASONABLE].
C5_FieldWithinClamp ==
    (program = "cpp-weld-2" /\ step_ >= 1) =>
        \A c \in Cells_ : config_.T0 <= T_[c] /\ T_[c] <= T_MAX_REASONABLE
\* a heated interior cell sits at the ceiling
C5_Witness ==
    /\ program = "cpp-weld-2"
    /\ step_ >= 1
    /\ \E c \in Interior_ : T_[c] = T_MAX_REASONABLE /\ Qvol_[c] > 0

\* C6: in every step of cpp-weld-2 each interior cell is advanced with
\* dt_eff = min(dt, 0.4 / (alpha * (1/dx^2 + 1/dy^2))) for its own alpha
\* (from its material at its previous temperature): alpha * dt_eff *
\* (1/dx^2 + 1/dy^2) <= 0.4, and a cell whose bound does not bind uses dt.
LocalAlpha_(c, temp) ==
    LET m == IF 2 * (c % config_.nx) * config_.Lx < config_.Lx * (config_.nx - 1)
             THEN mat_1_ ELSE mat_2_
    IN  RDiv(Material_get_k(m, temp),
             RMul(Material_get_rho(m, temp), Material_get_cp(m, temp)))
C6_PerCellStableStep ==
    [][ step_' = step_ + 1 =>
          \A c \in Interior_ :
            LET al == alpha_'[c]
                dte == dt_effective_'[c]
                bound == RDiv(<<2, 5>>, RMul(al, InvSq_))
            IN  /\ al = LocalAlpha_(c, T_[c])
                /\ RLe(RMul(RMul(al, dte), InvSq_), <<2, 5>>)
                /\ RLe(RMul(RMul(al, config_.dt), InvSq_), <<2, 5>>) => dte = config_.dt
                /\ dte = config_.dt \/ dte = bound ]_vars
\* in one step one cell is limited by its bound and another uses the full dt
C6_Witness ==
    /\ program = "cpp-weld-2"
    /\ step_ >= 1
    /\ \E c, d \in Interior_ :
          /\ RLt(dt_effective_[c], config_.dt)
          /\ dt_effective_[d] = config_.dt

\* C7: at every step whose arc position is beyond Lx the heat-source
\* routine is not called and the source is zero in every cell, and (v_weld
\* > 0) from such a step on this holds at every later step.
SourceOff_ == ~goldak_called_ /\ \A c \in Cells_ : Qvol_[c] = 0
SourceOff == ~goldak_called /\ \A i \in Cells : Q_vol[i] = 0
C7_SourceOffPastPlate ==
    [][ /\ (step_' >= 1 /\ ArcGone_') => SourceOff_'
        /\ (step' >= 1 /\ ArcGone') => SourceOff'
        /\ (step_ >= 1 /\ ArcGone_ /\ config_.v_weld > 0) => (ArcGone_' /\ SourceOff_')
        /\ (step >= 1 /\ ArcGone /\ config.v_weld > 0) => (ArcGone' /\ SourceOff') ]_vars
\* the arc heated the plate and has left it
C7_Witness ==
    /\ program = "cpp-weld-2"
    /\ ArcGone_
    /\ step_ < nt_
    /\ SourceOff_
    /\ \E c \in Cells_ : T_max_[c] > config_.T0

\* C8: for every configuration with nt >= 1, nt < 10 included, run() ends
\* only in Done, after exactly nt steps, with the clock at nt * dt.
C8_RunCompletes ==
    (program = "cpp-weld-2" /\ nt_ >= 1 /\ pc_ # "running") =>
        /\ pc_ = "done"
        /\ step_ = nt_
        /\ t_ = RMul(R(nt_), config_.dt)

\* C9: fusion is exactly T_max >= mean T_melt, HAZ is exactly
\* mean T_crit <= T_max < mean T_melt, no cell is in both masks, and the
\* if / else-if counts of cpp-weld equal the mask counts of computeZones.
PeakField == IF program = "cpp-weld-2" THEN T_max_ ELSE T_max
C9_ZoneClassification ==
    LET z == computeZones(PeakField)
        meltSum == config_.mat_1_T_melt + config_.mat_2_T_melt
        critSum == config_.mat_1_T_crit + config_.mat_2_T_crit
    IN  /\ \A c \in Cells_ :
              /\ z.fusion[c] <=> 2 * PeakField[c] >= meltSum
              /\ z.HAZ[c] <=> (critSum <= 2 * PeakField[c] /\ 2 * PeakField[c] < meltSum)
              /\ ~(z.fusion[c] /\ z.HAZ[c])
        /\ CountFusion(PeakField) = Cardinality({c \in Cells_ : z.fusion[c]})
        /\ CountHaz(PeakField) = Cardinality({c \in Cells_ : z.HAZ[c]})
        /\ pc_ = "done" => fusion_zone_ = z.fusion /\ HAZ_zone_ = z.HAZ
        /\ pc = "done" => /\ fusion_count = Cardinality({c \in Cells_ : z.fusion[c]})
                          /\ haz_count = Cardinality({c \in Cells_ : z.HAZ[c]})
\* a finished run with a fusion cell, a HAZ cell and an unaffected cell
C9_Witness ==
    /\ pc_ = "done"
    /\ \E c \in Cells_ : fusion_zone_[c]
    /\ \E c \in Cells_ : HAZ_zone_[c]
    /\ \E c \in Cells_ : ~fusion_zone_[c] /\ ~HAZ_zone_[c]

\* C10: with two identical materials the masks are the classification
\* against that one material's T_melt and T_crit, and equal peaks on the
\* two sides of the midpoint are classified alike.
SameMaterials == mat_1_ = mat_2_
C10_SingleMaterial ==
    (program = "cpp-weld-2" /\ SameMaterials) =>
        LET z == computeZones(T_max_)
        IN  /\ \A c \in Cells_ :
                  /\ z.fusion[c] <=> T_max_[c] >= config_.mat_1_T_melt
                  /\ z.HAZ[c] <=> /\ T_max_[c] >= config_.mat_1_T_crit
                                  /\ T_max_[c] < config_.mat_1_T_melt
            /\ \A c, d \in Cells_ :
                  T_max_[c] = T_max_[d] =>
                      z.fusion[c] = z.fusion[d] /\ z.HAZ[c] = z.HAZ[d]
            /\ pc_ = "done" => fusion_zone_ = z.fusion /\ HAZ_zone_ = z.HAZ
\* a finished single-material run with a fusion cell on each side of the
\* midpoint
C10_Witness ==
    /\ program = "cpp-weld-2"
    /\ SameMaterials
    /\ pc_ = "done"
    /\ \E c, d \in Interior_ :
          /\ RLt(X_(c), midpoint_) /\ ~RLt(X_(d), midpoint_)
          /\ fusion_zone_[c] /\ fusion_zone_[d]

\* ------------------------------------------------------------------
\* the three-regime law stated from its end points: base below T_crit, the
\* straight line from (T_crit, base) to (T_melt, target) between the
\* thresholds, target from T_melt on
RAbs(a) == <<Abs(a[1]), a[2]>>
LawValue(base, target, Tc, Tm, temp) ==
    IF temp < Tc THEN base
    ELSE IF temp < Tm
         THEN RAdd(base, RMul(RSub(target, base), Norm(temp - Tc, Tm - Tc)))
         ELSE target
Between(v, lo, hi) == (RLe(lo, v) /\ RLe(v, hi)) \/ (RLe(hi, v) /\ RLe(v, lo))
\* P, a property as a function of the temperature, follows the law at every
\* temperature of temps, stays between base and
\* target, and from one temperature to the next never moves by more than
\* the slope of the line (no jump at a threshold)
LawHolds(P, base, mult, Tc, Tm, temps) ==
    LET target == RMul(R(base), mult)
        slope == RAbs(RMul(RSub(target, R(base)), Norm(1, Tm - Tc)))
    IN  \A temp \in temps :
            /\ P[temp] = LawValue(R(base), target, Tc, Tm, temp)
            /\ Between(P[temp], R(base), target)
            /\ RLe(RAbs(RSub(P[temp + 1], P[temp])), slope)
\* the temperatures a law is examined at: those of the current field and
\* those around the two thresholds
LawTemps(field, Tc, Tm) ==
    {field[c] : c \in DOMAIN field} \cup {Tc - 1, Tc, Tm - 1, Tm}

\* C11: for a material with T_crit < T_melt each of k, cp, rho is P_base
\* below T_crit, the linear interpolation between P_base at T_crit and the
\* target (k*1.1, cp*1.2, rho*0.95) at T_melt in between, and the target
\* from T_melt on; it is continuous at both thresholds and always lies
\* between P_base and the target.  Both variants.
C11_MaterialLaw ==
    /\ \A m \in {mat_1_, mat_2_} :
          m.T_crit < m.T_melt =>
              LET temps == LawTemps(T_, m.T_crit, m.T_melt)
              IN  /\ LawHolds([u \in Int |-> Material_get_k(m, u)], m.k, <<11, 10>>,
                              m.T_crit, m.T_melt, temps)
                  /\ LawHolds([u \in Int |-> Material_get_cp(m, u)], m.cp, <<6, 5>>,
                              m.T_crit, m.T_melt, temps)
                  /\ LawHolds([u \in Int |-> Material_get_rho(m, u)], m.rho, <<19, 20>>,
                              m.T_crit, m.T_melt, temps)
    /\ \A m \in {[k |-> config.mat_1_k, cp |-> config.mat_1_cp, rho |-> config.mat_1_rho,
                  Tc |-> config.mat_1_T_crit, Tm |-> config.mat_1_T_melt],
                 [k |-> config.mat_2_k, cp |-> config.mat_2_cp, rho |-> config.mat_2_rho,
                  Tc |-> config.mat_2_T_crit, Tm |-> config.mat_2_T_melt]} :
          m.Tc < m.Tm =>
              LET temps == LawTemps(T, m.Tc, m.Tm)
              IN  /\ LawHolds([u \in Int |-> get_k(u, m.k, m.Tc, m.Tm)], m.k, <<11, 10>>,
                              m.Tc, m.Tm, temps)
                  /\ LawHolds([u \in Int |-> get_cp(u, m.cp, m.Tc, m.Tm)], m.cp, <<6, 5>>,
                              m.Tc, m.Tm, temps)
                  /\ LawHolds([u \in Int |-> get_rho(u, m.rho, m.Tc, m.Tm)], m.rho, <<19, 20>>,
                              m.Tc, m.Tm, temps)
\* a step has been taken from a field that holds, in interior cells, a
\* temperature of each regime of the cell's material
C11_Witness ==
    /\ program = "cpp-weld-2"
    /\ step_ >= 2
    /\ \E c, d, e \in Interior_ :
          /\ T_[c] < MaterialOf_(c).T_crit
          /\ MaterialOf_(d).T_crit <= T_[d] /\ T_[d] < MaterialOf_(d).T_melt
          /\ T_[e] >= MaterialOf_(e).T_melt

\* ------------------------------------------------------------------
\* the material number the partition gives a column: X = col * Lx / (nx - 1)
\* is left of Lx / 2 exactly when 2 * col < nx - 1 (Lx > 0)
LeftHalf(column, n) == 2 * column < n - 1
\* the three properties of the left (first) or right (second) material of
\* each program at one temperature
PropsAt_(left, temp) ==
    LET m == IF left THEN mat_1_ ELSE mat_2_
    IN  [k |-> Material_get_k(m, temp), cp |-> Material_get_cp(m, temp),
         rho |-> Material_get_rho(m, temp)]
PropsAt(left, temp) ==
    IF left
    THEN [k |-> get_k(temp, config.mat_1_k, config.mat_1_T_crit, config.mat_1_T_melt),
          cp |-> get_cp(temp, config.mat_1_cp, config.mat_1_T_crit, config.mat_1_T_melt),
          rho |-> get_rho(temp, config.mat_1_rho, config.mat_1_T_crit, config.mat_1_T_melt)]
    ELSE [k |-> get_k(temp, config.mat_2_k, config.mat_2_T_crit, config.mat_2_T_melt),
          cp |-> get_cp(temp, config.mat_2_cp, config.mat_2_T_crit, config.mat_2_T_melt),
          rho |-> get_rho(temp, config.mat_2_rho, config.mat_2_T_crit, config.mat_2_T_melt)]
\* the fields the partition is examined with: the current one, a cold one
\* and a hot one
ProbeFields(field) ==
    {field, [c \in DOMAIN field |-> config_.T0], [c \in DOMAIN field |-> T_MAX_REASONABLE]}

\* C12: at every step the material used for a cell is material 1 exactly
\* when X[idx] < Lx/2 and material 2 otherwise (a cell on the midpoint is
\* material 2), whatever the temperature of the cell: the properties
\* computed for any field, and the diffusivity the step used, are those of
\* that material.  Both variants.
C12_MaterialPartition ==
    [][ /\ \A Tf \in ProbeFields(T_) : \A c \in Cells_ :
              computeMaterialProperties(Tf)[c] = PropsAt_(LeftHalf(col_(c), nx_), Tf[c])
        /\ (step_' # step_) =>
              \A c \in Interior_ :
                  LET p == PropsAt_(LeftHalf(col_(c), nx_), T_[c])
                  IN  alpha_'[c] = RDiv(p.k, RMul(p.rho, p.cp))
        /\ \A Tf \in ProbeFields(T) : \A i \in Cells :
              LET q == compute_material_properties(Tf)[i]
              IN  [k |-> q.k, cp |-> q.cp, rho |-> q.rho]
                      = PropsAt(LeftHalf(col(i), config.nx), Tf[i]) ]_vars
\* two different materials, a step taken from a field in which an interior
\* cell exactly on the midpoint was above the right material's T_crit, and
\* an interior cell strictly left of the midpoint
C12_Witness ==
    /\ program = "cpp-weld-2"
    /\ mat_1_ # mat_2_
    /\ step_ >= 3
    /\ \E c, d \in Interior_ :
          /\ X_(c) = midpoint_
          /\ T_[c] >= mat_2_.T_crit
          /\ alpha_[c] # RDiv(R(mat_2_.k), R(mat_2_.rho * mat_2_.cp))
          /\ RLt(X_(d), midpoint_)

\* ------------------------------------------------------------------
\* the simulation object exists (its constructor has run)
Constructed_ == pc_ \in {"running", "done", "crashed"}

\* C13: constructing the simulation with nx < 3 or ny < 3 fails with a
\* configuration error: no grid is built and no time step is ever executed
\* for such a configuration.
C13_SmallGridRejected ==
    (program = "cpp-weld-2" /\ (config_.nx < 3 \/ config_.ny < 3)) =>
        /\ ~Constructed_
        /\ T_ = <<>>
        /\ step_ = 0
        /\ pc_ # "main" => pc_ = "rejected"

\* C14: a configuration whose weld_process is neither "TIG" nor "Electrode"
\* is rejected before a simulation is constructed, and no simulation ever
\* runs with such a weld_process.
C14_UnknownProcessRejected ==
    (program = "cpp-weld-2" /\ config_.weld_process \notin {"TIG", "Electrode"}) =>
        /\ ~Constructed_
        /\ T_ = <<>>
        /\ step_ = 0
        /\ pc_ # "main" => pc_ = "rejected"
\* main() has ended with the error for an unknown process
C14_Witness ==
    /\ program = "cpp-weld-2"
    /\ pc_ = "rejected"
    /\ config_.weld_process = "MIG"

\* the efficiency table of the three process settings
EtaTable(wp, gas) ==
    IF wp = "TIG" THEN (IF gas THEN <<3, 4>> ELSE <<13, 20>>) ELSE <<17, 20>>

\* C15: the efficiency in Q_total = eta * V * I depends on (weld_process,
\* use_gas) only: TIG with gas 0.75, TIG without gas 0.65, Electrode 0.85
\* with or without gas; an eta given in the input configuration has no
\* influence on Q_total.
C15_EfficiencyFromProcess ==
    (program = "cpp-weld-2" /\ Constructed_) =>
        /\ config_.weld_process \in {"TIG", "Electrode"}
        /\ config_.eta = EtaTable(config_.weld_process, config_.use_gas)
        /\ Q_total_ = RMul(EtaTable(config_.weld_process, config_.use_gas),
                           R(config_.V * config_.I))
        /\ config_.V = config.V /\ config_.I = config.I
\* a finished Electrode run with gas whose input eta was not 0.85 and
\* whose source has heated the plate
C15_Witness ==
    /\ program = "cpp-weld-2"
    /\ pc_ = "done"
    /\ config_.weld_process = "Electrode" /\ config_.use_gas
    /\ config.eta # config_.eta
    /\ \E c \in Cells_ : T_max_[c] > config_.T0

\* ------------------------------------------------------------------
\* C16: after k completed steps the time sequence and every probe's
\* sequence have exactly k entries; entry k of a probe's sequence is the
\* post-update T at the probe's cell, entry k of the time sequence is the
\* clock of step k; earlier entries are never modified or removed.
C16_HistoriesAppendOnly ==
    [][ program = "cpp-weld-2" =>
          /\ Len(time_history_) = step_
          /\ \A k \in 1..3 : Len(T_history_[k]) = step_
          /\ (step_' # step_) =>
                /\ step_' = step_ + 1
                /\ Len(time_history_') = step_'
                /\ time_history_'[step_'] = t_'
                /\ SubSeq(time_history_', 1, step_) = time_history_
                /\ \A k \in 1..3 :
                      /\ Len(T_history_'[k]) = step_'
                      /\ T_history_'[k][step_'] = T_'[monitor_pts_[k]]
                      /\ SubSeq(T_history_'[k], 1, step_) = T_history_[k]
          /\ (step_' = step_) =>
                /\ time_history_' = time_history_
                /\ T_history_' = T_history_ ]_vars
\* several samples taken, a probe's sequence holding different values and
\* its latest sample lower than an earlier one
C16_Witness ==
    /\ program = "cpp-weld-2"
    /\ step_ >= 4
    /\ Len(time_history_) = step_
    /\ \E k \in 1..3 : \E n \in 1..(step_ - 1) :
          T_history_[k][n] > T_history_[k][step_]

\* ------------------------------------------------------------------
\* the largest value of a field
MaxOf(field) == CHOOSE v \in {field[c] : c \in DOMAIN field} :
                    \A c \in DOMAIN field : field[c] <= v

\* C18: in every step during which Q_vol is zero in all cells, the maximum
\* of T over all cells after the step is at most the maximum before the
\* step and at least T0, and the global peak of T_max does not increase.
C18_NoNewPeakWithoutSource ==
    [][ (/\ program = "cpp-weld-2"
         /\ step_' # step_
         /\ \A c \in Cells_ : Qvol_'[c] = 0) =>
            /\ MaxOf(T_') <= MaxOf(T_)
            /\ MaxOf(T_') >= config_.T0
            /\ MaxOf(T_max_') <= MaxOf(T_max_) ]_vars
\* the arc has left the plate, the last step had no source, the plate is
\* still warm and its maximum has fallen below the peak reached earlier
C18_Witness ==
    /\ program = "cpp-weld-2"
    /\ ArcGone_
    /\ step_ >= 3
    /\ \A c \in Cells_ : Qvol_[c] = 0
    /\ MaxOf(T_) > config_.T0
    /\ MaxOf(T_) < MaxOf(T_max_)

\* ------------------------------------------------------------------
\* The integral over the half plane xi >= 0 (or xi < 0), eta unbounded, of
\* coeff * exp(-xi^2 / lx^2 - eta^2 / ly^2) is coeff * pi * lx * ly / 2;
\* lxly is the product lx * ly of the two e-folding lengths.
HalfPlaneIntegral(coeff, lxly) == RMul(coeff, RMul(PI_R, RMul(lxly, <<1, 2>>)))
\* cpp-weld-2: exp(-xi^2/a^2 - eta^2/b^2), e-folding lengths a and b
ForwardPower_ == HalfPlaneIntegral(GoldakCoeff_(config_.ff), R(config_.a * config_.b))
RearPower_ == HalfPlaneIntegral(GoldakCoeff_(config_.fr), R(config_.a * config_.b))
\* cpp-weld: exp(-3 (xi^2/c^2 + eta^2/b^2)), e-folding lengths c/sqrt(3)
\* and b/sqrt(3), whose product is c * b / 3
ForwardPower ==
    HalfPlaneIntegral(goldak_coeff(config.ff, config.cf, Q_total),
                      Norm(config.cf * config.b, 3))
RearPower ==
    HalfPlaneIntegral(goldak_coeff(config.fr, config.cr, Q_total),
                      Norm(config.cr * config.b, 3))

\* C19: for the heat-flux function of each variant the integral of the
\* forward half (xi >= 0) over the infinite plane is ff * Q_total and that
\* of the rearward half is fr * Q_total.  Stated of the flux function a
\* step has just evaluated.
C19_HalfPlanePower ==
    /\ (program = "cpp-weld-2" /\ goldak_called_) =>
          /\ ForwardPower_ = RMul(config_.ff, Q_total_)
          /\ RearPower_ = RMul(config_.fr, Q_total_)
    /\ (program = "cpp-weld" /\ goldak_called) =>
          /\ ForwardPower = RMul(config.ff, Q_total)
          /\ RearPower = RMul(config.fr, Q_total)

\* ------------------------------------------------------------------
\* the fields after k steps of a configuration, each step computed cell by
\* cell from the field of the step before: what a run of that
\* configuration yields when nothing depends on the workers
Stored(f) == f @@ <<>>
RECURSIVE RefRun_(_)
RefRun_(k) ==
    IF k = 0
    THEN [T |-> [c \in Cells_ |-> config_.T0], Tmax |-> [c \in Cells_ |-> config_.T0]]
    ELSE LET p == RefRun_(k - 1)
             t == RMul(R(k), config_.dt)
             x_arc == RAdd(R(config_.x_start), RMul(R(config_.v_weld), t))
             Tn == Stored(NewField_(p.T, Stored(SourceOfStep_(x_arc))))
         IN  [T |-> Tn, Tmax |-> Stored(UpdateTmax_(p.Tmax, Tn))]
RECURSIVE RefRun(_)
RefRun(k) ==
    IF k = 0
    THEN [T |-> [i \in Cells |-> config.T0], Tmax |-> [i \in Cells |-> config.T0]]
    ELSE LET p == RefRun(k - 1)
             Tn == Stored(time_step_explicit(p.T,
                             Stored(apply_heat_source(RMul(R(k), config.dt))),
                             Stored(compute_material_properties(p.T))))
         IN  [T |-> Tn, Tmax |-> Stored(UpdateTmax(p.Tmax, Tn))]
CountTrue(mask) == Cardinality({c \in DOMAIN mask : mask[c]})

\* C17: two runs started from identical configurations end with identical
\* T_max in every cell and identical fusion and HAZ cell counts, however
\* the cells are distributed over the parallel workers: every finished run
\* of a configuration has the peak field and the counts that the
\* configuration alone determines.
C17_RunsAgree ==
    /\ (program = "cpp-weld-2" /\ pc_ = "done") =>
          LET ref == RefRun_(nt_).Tmax
          IN  /\ T_max_ = ref
              /\ CountTrue(fusion_zone_) = CountTrue(computeZones(ref).fusion)
              /\ CountTrue(HAZ_zone_) = CountTrue(computeZones(ref).HAZ)
    /\ (program = "cpp-weld" /\ pc = "done") =>
          LET ref == RefRun(nt).Tmax
          IN  /\ T_max = ref
              /\ fusion_count = CountFusion(ref)
              /\ haz_count = CountHaz(ref)

\* ------------------------------------------------------------------
\* C20: within one step every cell of the new field is computed from the
\* previous step's field, the previous-step material properties and Q_vol
\* only; a cell written stays as written; the current field is replaced
\* only when all cells have been computed, and then by the field that the
\* previous one determines, whatever the order in which the cells (rows, in
\* cpp-weld) were processed.
C20_ReadOldWriteNew ==
    [][/\ (program = "cpp-weld-2" /\ pc_ = "sweeping") =>
            IF pc_' = "sweeping"
            THEN /\ T_' = T_
                 /\ \A c \in swept_ : T_new_'[c] = T_new_[c]
                 /\ \A c \in swept_' \ swept_ : T_new_'[c] = NewField_(T_, Qvol_)[c]
            ELSE /\ swept_ = Cells_
                 /\ T_' = NewField_(T_, Qvol_)
       /\ (program = "cpp-weld" /\ pc \in {"interior", "copy"}) =>
            LET Tn == time_step_explicit(T, Q_vol, compute_material_properties(T))
            IN  IF pc' \in {"interior", "copy"}
                THEN /\ T' = T
                     /\ \A i \in swept : T_new'[i] = T_new[i]
                     /\ \A i \in swept' \ swept : T_new'[i] = Tn[i]
                ELSE /\ swept = Cells
                     /\ T' = Tn
      ]_vars
\* a sweep in which a cell was processed before its left neighbour, the
\* cell's new value differs from its old one and the neighbour's old value
\* is above the initial temperature
C20_Witness ==
    /\ program = "cpp-weld-2"
    /\ pc_ = "sweeping"
    /\ \E c \in Interior_ :
          /\ c - 1 \in Interior_
          /\ c \in swept_
          /\ c - 1 \notin swept_
          /\ T_new_[c] # T_[c]
          /\ T_[c - 1] > config_.T0

\* ------------------------------------------------------------------
\* the arc position of the step last executed
LastArc_ == RAdd(R(config_.x_start), RMul(R(config_.v_weld), t_))
LastArc == RAdd(R(config.x_start), RMul(R(config.v_weld), RMul(R(step), config.dt)))

\* C21: in both variants, after every step with x_arc <= Lx the volumetric
\* source handed to the integrator is, in every cell, the Goldak surface
\* flux of that step divided by the plate thickness.
C21_SourcePerThickness ==
    /\ (program = "cpp-weld-2" /\ step_ >= 1 /\ goldak_called_) =>
          \A c \in Cells_ :
              Qvol_[c] = Round(Norm(computeGoldakHeatFlux(LastArc_)[c], config_.thickness))
    /\ (program = "cpp-weld" /\ step >= 1 /\ goldak_called) =>
          \A i \in Cells :
              Q_vol[i] = Round(Norm(goldak_heat_flux(LastArc, Q_total)[i], config.thickness))

\* ------------------------------------------------------------------
\* C22: the two variants implement the same integrator step: from the same
\* previous field, the same Q_vol and the same grid, material and dt
\* parameters, time_step_explicit and solveTimeStep give the same new field
\* and the same T_max in every cell.  Every step either program takes is
\* compared with the step of the other program from the same inputs (the
\* two configurations of a run differ in eta only, which neither step
\* function reads).
C22_SameIntegratorStep ==
    [][/\ (program = "cpp-weld-2" /\ step_' = step_ + 1) =>
            LET Tn == time_step_explicit(T_, Qvol_', compute_material_properties(T_))
            IN  /\ \A c \in Cells_ : T_'[c] = Tn[c]
                /\ \A c \in Cells_ : T_max_'[c] = UpdateTmax(T_max_, Tn)[c]
       /\ (program = "cpp-weld" /\ step' = step + 1) =>
            LET Tn == NewField_(T, Q_vol')
            IN  /\ \A i \in Cells : T'[i] = Tn[i]
                /\ \A i \in Cells : T_max'[i] = UpdateTmax_(T_max, Tn)[i]
      ]_vars

=============================================================================
